---- MODULE Spec2Model ----
(***************************************************************************)
(* Model of musicgr's data-preparation utilities (utilities.py):           *)
(*   id_from_path, mp3_to_mel_path, read_metadata_file,                    *)
(*   attach_onehot_encoding and the Batch_generator class.                 *)
(*                                                                         *)
(* Paths are sequences of one-character strings.  A dataframe is a record  *)
(* [columns, index, rows]: the column names in order, the index labels in  *)
(* row order, and one record per row.  A numpy array of spectrograms is a  *)
(* record [shape, data].                                                   *)
(***************************************************************************)
EXTENDS Integers, Sequences, FiniteSets, TLC

VARIABLES pc, fs, all_metadata, all_filepaths, bad_filepaths, df, printed,
          melspec, gen, call, ret

vars == <<pc, fs, all_metadata, all_filepaths, bad_filepaths, df, printed,
          melspec, gen, call, ret>>

----------------------------------------------------------------------------
(* Bounds *)

MaxCsvRows == 3
MaxBad == 2
MaxTracks == 3
MaxBatch == 3
MaxFiles == 2
MaxList == 3
MaxMelRows == 2
MaxMelCols == 2
MelRows == 2

----------------------------------------------------------------------------
(* Generic helpers *)

Min(a, b) == IF a < b THEN a ELSE b

Max(a, b) == IF a < b THEN b ELSE a

RECURSIVE SeqsUpTo(_, _)
SeqsUpTo(S, n) ==
  IF n = 0 THEN {<<>>}
  ELSE LET shorter == SeqsUpTo(S, n - 1)
       IN shorter \cup {Append(s, x) : s \in {t \in shorter : Len(t) = n - 1}, x \in S}

Range(s) == {s[i] : i \in 1..Len(s)}

NoDf == [columns |-> <<>>, index |-> <<>>, rows |-> <<>>]

NoGen == [mp3_paths |-> <<>>, labels |-> <<>>, batch_size |-> 1]

NoCall == [op |-> "none"]

NoRet == [op |-> "none"]

Digit == <<"1", "2", "3", "4", "5", "6", "7", "8", "9">>

(* the mp3 file of the k-th track, "d/<k>.mp3" *)
Mp3Path(k) == <<"d", "/", Digit[k], ".", "m", "p", "3">>

----------------------------------------------------------------------------
(* os.path and id_from_path *)

(* index of the last "/" of p, 0 when there is none *)
LastSlash(p) ==
  LET S == {i \in 1..Len(p) : p[i] = "/"}
  IN IF S = {} THEN 0 ELSE CHOOSE i \in S : \A j \in S : j <= i

(* os.path.split(p)[1]: everything after the last "/" *)
os_path_split_tail(p) == SubSeq(p, LastSlash(p) + 1, Len(p))

(* s[:-4] *)
DropLast4(s) == IF Len(s) <= 4 THEN <<>> ELSE SubSeq(s, 1, Len(s) - 4)

(* s[:-3], an off-by-one variant of the slice *)
DropLast3(s) == IF Len(s) <= 3 THEN <<>> ELSE SubSeq(s, 1, Len(s) - 3)

id_from_path_short(mp3_path) == DropLast3(os_path_split_tail(mp3_path))

id_from_path(mp3_path) == DropLast4(os_path_split_tail(mp3_path))

(* os.path.join(a, b) on a POSIX system *)
os_path_join(a, b) ==
  IF Len(b) > 0 /\ b[1] = "/" THEN b
  ELSE IF Len(a) = 0 \/ a[Len(a)] = "/" THEN a \o b
  ELSE a \o <<"/">> \o b

NpzExt == <<".", "n", "p", "z">>

melspec_path_of(mp3_path, melspec_dir) ==
  os_path_join(melspec_dir, id_from_path(mp3_path) \o NpzExt)

(* os.path.exists *)
os_path_exists(path) == path \in fs

(* the mp3 paths and directories mp3_to_mel_path is tried on *)
SamplePaths ==
  { <<"d", "/", "1", ".", "m", "p", "3">>,
    <<"1", ".", "m", "p", "3">>,
    <<"d", "/", "e", "/", "2", ".", "m", "p", "3">>,
    <<"/", "d", "/", "a", ".", "b", ".", "m", "p", "3">>,
    <<"d", ".", "x", "/", "2", ".", "M", "P", "3">>,
    <<"d", "/", "1", ".", "f", "l", "a", "c">>,
    <<"d", "/", "2">>,
    <<"d", "/">> }

SampleDirs == { <<"m">>, <<"m", "/">>, <<>>, <<"/", "m", "/", "s">> }

NpzPool ==
  { <<"m", "/", "1", ".", "n", "p", "z">>,
    <<"m", "/", "2", ".", "n", "p", "z">>,
    <<"m", "/", "a", ".", "b", ".", "n", "p", "z">>,
    <<"1", ".", "n", "p", "z">>,
    <<"/", "m", "/", "s", "/", "2", ".", "n", "p", "z">>,
    <<"m", "/", ".", "n", "p", "z">> }

InitPath ==
  /\ pc = "path"
  /\ fs \in SUBSET NpzPool
  /\ all_metadata = <<>>
  /\ all_filepaths = <<>>
  /\ bad_filepaths = <<>>
  /\ df = NoDf
  /\ printed = <<>>
  /\ melspec = <<>>
  /\ gen = NoGen
  /\ call = NoCall
  /\ ret = NoRet

(* mp3_to_mel_path when the spectrogram file exists *)
Mp3ToMelPathReturns(mp3_path, melspec_dir) ==
  /\ pc = "path"
  /\ os_path_exists(melspec_path_of(mp3_path, melspec_dir))
  /\ call' = [op |-> "mp3_to_mel_path", mp3_path |-> mp3_path, melspec_dir |-> melspec_dir]
  /\ ret' = [op |-> "mp3_to_mel_path", outcome |-> "returned",
             value |-> melspec_path_of(mp3_path, melspec_dir)]
  /\ UNCHANGED <<pc, fs, all_metadata, all_filepaths, bad_filepaths, df, printed,
                 melspec, gen>>

(* mp3_to_mel_path when it does not *)
Mp3ToMelPathRaises(mp3_path, melspec_dir) ==
  /\ pc = "path"
  /\ ~os_path_exists(melspec_path_of(mp3_path, melspec_dir))
  /\ call' = [op |-> "mp3_to_mel_path", mp3_path |-> mp3_path, melspec_dir |-> melspec_dir]
  /\ ret' = [op |-> "mp3_to_mel_path", outcome |-> "FileNotFoundError",
             value |-> id_from_path(mp3_path)]
  /\ UNCHANGED <<pc, fs, all_metadata, all_filepaths, bad_filepaths, df, printed,
                 melspec, gen>>

NextPath ==
  \/ \E p \in SamplePaths, d \in SampleDirs : Mp3ToMelPathReturns(p, d)
  \/ \E p \in SamplePaths, d \in SampleDirs : Mp3ToMelPathRaises(p, d)

SpecPath == InitPath /\ [][NextPath]_vars

----------------------------------------------------------------------------
(* read_metadata_file *)

Subsets == {"small", "medium"}

TrackId(i) == 10 * i

CsvGenres == {"Rock", "Pop"}

(* the tables pd.read_csv can deliver: n rows indexed by distinct track ids *)
CsvTables(n) ==
  { [i \in 1..n |-> [track_id |-> TrackId(i), subset |-> f[i][1], genre_top |-> f[i][2]]] :
      f \in [1..n -> Subsets \X CsvGenres] }

MetaPaths == {Mp3Path(1), Mp3Path(2)}

BadPaths == MetaPaths \cup {Mp3Path(9)}

IsSmall(r) == r.subset = "small"

(* all_metadata.loc[subset == 'small', cols_to_keep], reset_index, rename *)
SmallSubset(meta) ==
  LET small == SelectSeq(meta, IsSmall)
  IN [columns |-> <<"track_id", "genre">>,
      index |-> [i \in 1..Len(small) |-> i - 1],
      rows |-> [i \in 1..Len(small) |->
                  [track_id |-> small[i].track_id, genre |-> small[i].genre_top]]]

(* df['mp3_path'] = values, for a list of the right length *)
AssignMp3Path(d, values) ==
  [columns |-> Append(d.columns, "mp3_path"),
   index |-> d.index,
   rows |-> [i \in 1..Len(d.rows) |->
               [track_id |-> d.rows[i].track_id, genre |-> d.rows[i].genre,
                mp3_path |-> values[i]]]]

(* df.mp3_path.isin(values), one boolean per row; a variant that only looks
   at the first value follows *)
IsInFirstOnly(d, values) ==
  [i \in 1..Len(d.rows) |-> Len(values) > 0 /\ d.rows[i].mp3_path = values[1]]

IsIn(d, values) == [i \in 1..Len(d.rows) |-> d.rows[i].mp3_path \in Range(values)]

MaskSum(mask) == Cardinality({i \in 1..Len(mask) : mask[i]})

(* df.loc[mask, :].index *)
MaskedIndex(d, mask) == {d.index[i] : i \in {j \in 1..Len(mask) : mask[j]}}

RECURSIVE KeepPositions(_, _, _)
KeepPositions(s, keep, i) ==
  IF i > Len(s) THEN <<>>
  ELSE IF i \in keep THEN <<s[i]>> \o KeepPositions(s, keep, i + 1)
  ELSE KeepPositions(s, keep, i + 1)

(* df.drop(labels, inplace=True): removes every row whose index label is in labels *)
Drop(d, labels) ==
  LET keep == {i \in 1..Len(d.rows) : d.index[i] \notin labels}
  IN [columns |-> d.columns,
      index |-> KeepPositions(d.index, keep, 1),
      rows |-> KeepPositions(d.rows, keep, 1)]

(* the number the "Dropped N rows" message reports *)
DroppedCount(bad) == Len(bad)

InitMeta ==
  /\ pc = "start"
  /\ fs = {}
  /\ all_metadata \in UNION {CsvTables(n) : n \in 0..MaxCsvRows}
  /\ all_filepaths \in SeqsUpTo(MetaPaths, MaxCsvRows)
  /\ bad_filepaths \in SeqsUpTo(BadPaths, MaxBad)
  /\ df = NoDf
  /\ printed = <<>>
  /\ melspec = <<>>
  /\ gen = NoGen
  /\ call = NoCall
  /\ ret = NoRet

(* read_metadata_file when all_filepaths has one path per 'small' row *)
ReadMetadataFile ==
  /\ pc = "start"
  /\ Len(all_filepaths) = Len(SmallSubset(all_metadata).rows)
  /\ LET d == AssignMp3Path(SmallSubset(all_metadata), all_filepaths)
         mask == IsIn(d, bad_filepaths)
     IN IF MaskSum(mask) # 0
        THEN /\ df' = Drop(d, MaskedIndex(d, mask))
             /\ printed' = <<[dropped |-> DroppedCount(bad_filepaths)]>>
        ELSE /\ df' = d
             /\ printed' = <<>>
  /\ pc' = "loaded"
  /\ call' = [op |-> "read_metadata_file"]
  /\ ret' = [op |-> "read_metadata_file", outcome |-> "returned"]
  /\ UNCHANGED <<fs, all_metadata, all_filepaths, bad_filepaths, melspec, gen>>

(* read_metadata_file when the column assignment fails on a length mismatch *)
ReadMetadataFileRaises ==
  /\ pc = "start"
  /\ Len(all_filepaths) # Len(SmallSubset(all_metadata).rows)
  /\ pc' = "raised"
  /\ call' = [op |-> "read_metadata_file"]
  /\ ret' = [op |-> "read_metadata_file", outcome |-> "ValueError"]
  /\ UNCHANGED <<fs, all_metadata, all_filepaths, bad_filepaths, df, printed,
                 melspec, gen>>

NextMeta ==
  \/ ReadMetadataFile
  \/ ReadMetadataFileRaises

SpecMeta == InitMeta /\ [][NextMeta]_vars

----------------------------------------------------------------------------
(* attach_onehot_encoding *)

NaN == "NaN"

(* the genre names, in the sorted order pd.get_dummies gives its columns *)
SortedGenres == <<"Electronic", "Pop", "Rock">>

GenreValues == Range(SortedGenres) \cup {NaN}

(* df.genre *)
GenreColumn(d) == [i \in 1..Len(d.rows) |-> d.rows[i].genre]

IsPresentIn(values, g) == g \in Range(values)

(* the columns of pd.get_dummies(values): the distinct non-NaN values, sorted *)
DummyColumns(values) ==
  LET Present(g) == IsPresentIn(values, g)
  IN SelectSeq(SortedGenres, Present)

(* row i of pd.get_dummies(values) *)
DummyRow(values, i) ==
  [g \in Range(DummyColumns(values)) |-> IF values[i] = g THEN 1 ELSE 0]

(* pd.concat([df, pd.get_dummies(df.genre)], axis=1); column_name is not used *)
attach_onehot_encoding(d, column_name) ==
  [columns |-> d.columns \o DummyColumns(GenreColumn(d)),
   index |-> d.index,
   rows |-> [i \in 1..Len(d.rows) |-> d.rows[i] @@ DummyRow(GenreColumn(d), i)]]

----------------------------------------------------------------------------
(* Batch_generator *)

RECURSIVE UniqueFrom(_, _, _)
UniqueFrom(values, i, seen) ==
  IF i > Len(values) THEN <<>>
  ELSE IF values[i] \in seen THEN UniqueFrom(values, i + 1, seen)
  ELSE <<values[i]>> \o UniqueFrom(values, i + 1, seen \cup {values[i]})

(* the genres in sorted order, as a wrong column order for the labels *)
SortedUnique(values) ==
  LET Present(g) == IsPresentIn(values, g)
  IN SelectSeq(SortedGenres \o <<NaN>>, Present)

(* Series.unique(): the distinct values in order of first occurrence *)
Unique(values) == UniqueFrom(values, 1, {})

(* the columns meta_df.loc[:, meta_df.genre.unique()] asks for *)
LabelColumns(d) == Unique(GenreColumn(d))

HasLabelColumns(d) == Range(LabelColumns(d)) \subseteq Range(d.columns)

(* Batch_generator.__init__ *)
BatchGenerator(d, batch_size) ==
  [mp3_paths |-> [i \in 1..Len(d.rows) |-> d.rows[i].mp3_path],
   labels |-> [i \in 1..Len(d.rows) |->
                 [j \in 1..Len(LabelColumns(d)) |-> d.rows[i][LabelColumns(d)[j]]]],
   batch_size |-> batch_size]

(* n // b, rounding down where the code rounds up *)
FloorDiv(n, b) == n \div b

(* n // b + 1, one batch too many when b divides n *)
FloorDivPlusOne(n, b) == n \div b + 1

(* np.ceil(n / float(b)): the least integer that is not below n / b *)
CeilDiv(n, b) == CHOOSE k \in 0..n : k * b >= n /\ \A m \in 0..n : m * b >= n => k <= m

(* Batch_generator.__len__ *)
BatchLen(g) == CeilDiv(Len(g.mp3_paths), g.batch_size)

(* s[lo+1 : hi] shifted by one, a wrong slice *)
SliceShifted(s, lo, hi) == SubSeq(s, Min(lo, Len(s)) + 2, Min(hi + 1, Len(s)))

(* s[lo:hi] for 0 <= lo <= hi: the items at the 0-based positions lo .. hi-1 that exist *)
Slice(s, lo, hi) == SubSeq(s, Min(lo, Len(s)) + 1, Min(hi, Len(s)))

(* the first element instead of the largest *)
FirstOf(s) == s[1]

(* max of a non-empty list *)
MaxOf(s) == CHOOSE m \in Range(s) : \A v \in Range(s) : v <= m

(* the spectrogram librosa computes for the k-th file, with r rows and c columns *)
Spectrogram(k, r, c) ==
  [rows |-> r, cols |-> c,
   data |-> [i \in 1..r |-> [j \in 1..c |-> 100 * k + 10 * i + j]]]

(* the largest row count of a list of spectrograms *)
MaxRowsOf(specs) == MaxOf([i \in 1..Len(specs) |-> specs[i].rows])

(* the first spectrogram's column count, where the code takes the largest *)
FirstColsOf(specs) == FirstOf([i \in 1..Len(specs) |-> specs[i].cols])

(* the largest column count of a list of spectrograms *)
MaxColsOf(specs) == MaxOf([i \in 1..Len(specs) |-> specs[i].cols])

(* Batch_generator._stack_melspecs on a non-empty list *)
stack_melspecs(filepath_list) ==
  LET melspecs == [i \in 1..Len(filepath_list) |-> melspec[filepath_list[i]]]
      R == MaxRowsOf(melspecs)
      C == MaxColsOf(melspecs)
  IN [shape |-> <<Len(filepath_list), R, C>>,
      data |-> [i \in 1..Len(filepath_list) |->
                 [r \in 1..R |->
                   [c \in 1..C |->
                     IF r <= melspecs[i].rows /\ c <= melspecs[i].cols
                     THEN melspecs[i].data[r][c]
                     ELSE 0]]]]

(* the two slices of __getitem__ *)
BatchX(g, idx) == Slice(g.mp3_paths, idx * g.batch_size, (idx + 1) * g.batch_size)

BatchY(g, idx) == Slice(g.labels, idx * g.batch_size, (idx + 1) * g.batch_size)

(* the metadata tables a generator is built over *)
MetaTables(n) ==
  { [columns |-> <<"track_id", "genre", "mp3_path">>,
     index |-> [i \in 1..n |-> i - 1],
     rows |-> [i \in 1..n |->
                 [track_id |-> TrackId(i), genre |-> f[i], mp3_path |-> Mp3Path(i)]]] :
      f \in [1..n -> GenreValues] }

PathNo(p) == CHOOSE k \in 1..Len(Digit) : Mp3Path(k) = p

(* the spectrograms of n tracks: MelRows mel bands each, any number of frames *)
TrackSpectrograms(n) ==
  { [p \in {Mp3Path(k) : k \in 1..n} |-> Spectrogram(PathNo(p), MelRows, c[PathNo(p)])] :
      c \in [1..n -> 1..MaxMelCols] }

ColumnNames == {"genre", "track_id", "mp3_path"}

InitGen ==
  /\ pc = "loaded"
  /\ fs = {}
  /\ all_metadata = <<>>
  /\ all_filepaths = <<>>
  /\ bad_filepaths = <<>>
  /\ \E n \in 0..MaxTracks :
       /\ df \in MetaTables(n)
       /\ melspec \in TrackSpectrograms(n)
  /\ printed = <<>>
  /\ gen = NoGen
  /\ call = NoCall
  /\ ret = NoRet

(* df = attach_onehot_encoding(df, column_name) *)
AttachOnehotEncoding(column_name) ==
  /\ pc = "loaded"
  /\ df' = attach_onehot_encoding(df, column_name)
  /\ pc' = "encoded"
  /\ call' = [op |-> "attach_onehot_encoding", df |-> df, column_name |-> column_name]
  /\ ret' = [op |-> "attach_onehot_encoding", outcome |-> "returned"]
  /\ UNCHANGED <<fs, all_metadata, all_filepaths, bad_filepaths, printed, melspec, gen>>

(* Batch_generator(df, batch_size, sr, duration) *)
NewBatchGenerator(batch_size) ==
  /\ pc \in {"loaded", "encoded"}
  /\ HasLabelColumns(df)
  /\ gen' = BatchGenerator(df, batch_size)
  /\ pc' = "ready"
  /\ call' = [op |-> "__init__", batch_size |-> batch_size]
  /\ ret' = [op |-> "__init__", outcome |-> "returned"]
  /\ UNCHANGED <<fs, all_metadata, all_filepaths, bad_filepaths, df, printed, melspec>>

(* Batch_generator(...) over a table that lacks a genre's column *)
NewBatchGeneratorRaises(batch_size) ==
  /\ pc \in {"loaded", "encoded"}
  /\ ~HasLabelColumns(df)
  /\ pc' = "raised"
  /\ call' = [op |-> "__init__", batch_size |-> batch_size]
  /\ ret' = [op |-> "__init__", outcome |-> "KeyError"]
  /\ UNCHANGED <<fs, all_metadata, all_filepaths, bad_filepaths, df, printed, melspec, gen>>

(* len(generator) *)
LenCall ==
  /\ pc = "ready"
  /\ call' = [op |-> "__len__"]
  /\ ret' = [op |-> "__len__", outcome |-> "returned", value |-> BatchLen(gen)]
  /\ UNCHANGED <<pc, fs, all_metadata, all_filepaths, bad_filepaths, df, printed,
                 melspec, gen>>

(* generator[idx] for a batch that has tracks *)
GetItem(idx) ==
  /\ pc = "ready"
  /\ BatchX(gen, idx) # <<>>
  /\ call' = [op |-> "__getitem__", idx |-> idx]
  /\ ret' = [op |-> "__getitem__", outcome |-> "returned",
             x |-> stack_melspecs(BatchX(gen, idx)), y |-> BatchY(gen, idx)]
  /\ UNCHANGED <<pc, fs, all_metadata, all_filepaths, bad_filepaths, df, printed,
                 melspec, gen>>

(* generator[idx] past the last batch: max() of an empty list *)
GetItemRaises(idx) ==
  /\ pc = "ready"
  /\ BatchX(gen, idx) = <<>>
  /\ call' = [op |-> "__getitem__", idx |-> idx]
  /\ ret' = [op |-> "__getitem__", outcome |-> "ValueError"]
  /\ UNCHANGED <<pc, fs, all_metadata, all_filepaths, bad_filepaths, df, printed,
                 melspec, gen>>

NextGen ==
  \/ \E c \in ColumnNames : AttachOnehotEncoding(c)
  \/ \E b \in 1..MaxBatch : NewBatchGenerator(b)
  \/ \E b \in 1..MaxBatch : NewBatchGeneratorRaises(b)
  \/ LenCall
  \/ \E idx \in 0..BatchLen(gen) : GetItem(idx)
  \/ \E idx \in 0..BatchLen(gen) : GetItemRaises(idx)

SpecGen == InitGen /\ [][NextGen]_vars

----------------------------------------------------------------------------
(* _stack_melspecs on its own, over spectrograms of any shape: one call per
   behaviour, on a list drawn from the files *)

StackFiles == {Mp3Path(k) : k \in 1..MaxFiles}

AnySpectrograms ==
  { [p \in StackFiles |-> Spectrogram(PathNo(p), s[PathNo(p)][1], s[PathNo(p)][2])] :
      s \in [1..MaxFiles -> (1..MaxMelRows) \X (1..MaxMelCols)] }

InitStack ==
  /\ pc = "stack"
  /\ fs = {}
  /\ all_metadata = <<>>
  /\ all_filepaths = <<>>
  /\ bad_filepaths = <<>>
  /\ df = NoDf
  /\ printed = <<>>
  /\ melspec \in AnySpectrograms
  /\ gen = NoGen
  /\ call = NoCall
  /\ ret = NoRet

StackMelspecs(filepath_list) ==
  /\ pc = "stack"
  /\ filepath_list # <<>>
  /\ pc' = "stacked"
  /\ call' = [op |-> "_stack_melspecs", filepath_list |-> filepath_list]
  /\ ret' = [op |-> "_stack_melspecs", outcome |-> "returned",
             value |-> stack_melspecs(filepath_list)]
  /\ UNCHANGED <<fs, all_metadata, all_filepaths, bad_filepaths, df, printed,
                 melspec, gen>>

StackMelspecsRaises(filepath_list) ==
  /\ pc = "stack"
  /\ filepath_list = <<>>
  /\ pc' = "stacked"
  /\ call' = [op |-> "_stack_melspecs", filepath_list |-> filepath_list]
  /\ ret' = [op |-> "_stack_melspecs", outcome |-> "ValueError"]
  /\ UNCHANGED <<fs, all_metadata, all_filepaths, bad_filepaths, df, printed,
                 melspec, gen>>

NextStack ==
  \/ \E l \in SeqsUpTo(StackFiles, MaxList) : StackMelspecs(l)
  \/ \E l \in SeqsUpTo(StackFiles, MaxList) : StackMelspecsRaises(l)

SpecStack == InitStack /\ [][NextStack]_vars

----------------------------------------------------------------------------
(* Properties of mp3_to_mel_path (SpecPath) *)

(* the file name of p without its extension, as os.path.splitext sees it *)
Stem(p) ==
  LET name == os_path_split_tail(p)
      dots == {i \in 2..Len(name) : name[i] = "."}
  IN IF dots = {} THEN name
     ELSE SubSeq(name, 1, (CHOOSE i \in dots : \A j \in dots : j <= i) - 1)

(* p names a file "<stem>.mp3" with a non-empty stem *)
IsMp3Path(p) ==
  LET name == os_path_split_tail(p)
      n == Len(name)
  IN /\ n > 4
     /\ name[n - 3] = "."
     /\ name[n - 2] \in {"m", "M"}
     /\ name[n - 1] \in {"p", "P"}
     /\ name[n] = "3"

(* C4: mp3_to_mel_path returns melspec_dir joined with id + ".npz" exactly
   when that file exists and raises FileNotFoundError otherwise, so it never
   returns a path that does not exist; id is what id_from_path gives, which
   for an mp3 path is the file name without directory and extension. *)
C4_MelPathExistsOrRaises ==
  ret.op = "mp3_to_mel_path" =>
    LET p == call.mp3_path
        target == os_path_join(call.melspec_dir, id_from_path(p) \o NpzExt)
    IN /\ IsMp3Path(p) => id_from_path(p) = Stem(p)
       /\ IsMp3Path(p) => target = os_path_join(call.melspec_dir, Stem(p) \o NpzExt)
       /\ ret.outcome \in {"returned", "FileNotFoundError"}
       /\ ret.outcome = "returned" <=> target \in fs
       /\ ret.outcome = "returned" => ret.value = target /\ ret.value \in fs

C4_Witness ==
  /\ ret.op = "mp3_to_mel_path"
  /\ ret.outcome = "returned"
  /\ IsMp3Path(call.mp3_path)
  /\ LastSlash(call.mp3_path) > 0
  /\ fs # NpzPool

----------------------------------------------------------------------------
(* Properties of read_metadata_file (SpecMeta) *)

SmallRows == SelectSeq(all_metadata, IsSmall)

(* C7: the returned table has no row whose mp3_path is in bad_filepaths;
   every row of the 'small' subset whose path is not bad is retained, in the
   original order, with its track_id and genre, and carries the path that
   stands at its position in all_filepaths. *)
C7_BadRowsRemoved ==
  pc = "loaded" =>
    /\ \A i \in 1..Len(df.rows) : df.rows[i].mp3_path \notin Range(bad_filepaths)
    /\ Len(df.index) = Len(df.rows)
    /\ \A i \in 1..Len(df.rows) :
         LET k == df.index[i] + 1
         IN /\ k \in 1..Len(SmallRows)
            /\ df.rows[i].track_id = SmallRows[k].track_id
            /\ df.rows[i].genre = SmallRows[k].genre_top
            /\ df.rows[i].mp3_path = all_filepaths[k]
    /\ \A i \in 1..Len(df.rows), j \in 1..Len(df.rows) : i < j => df.index[i] < df.index[j]
    /\ \A k \in 1..Len(SmallRows) :
         all_filepaths[k] \notin Range(bad_filepaths) =>
           \E i \in 1..Len(df.rows) : df.index[i] = k - 1

C7_Witness ==
  /\ pc = "loaded"
  /\ Len(df.rows) >= 1
  /\ Len(df.rows) < Len(SmallRows)
  /\ Len(SmallRows) < Len(all_metadata)
  /\ printed # <<>>
  /\ \E p \in Range(bad_filepaths) : p \notin Range(all_filepaths)

(* C8: the number in the "Dropped N rows" message is the number of rows
   removed from the table; when no row is bad nothing is printed and the
   table is returned as it was. *)
C8_DroppedCountIsRowsRemoved ==
  pc = "loaded" =>
    IF printed # <<>>
    THEN /\ Len(printed) = 1
         /\ printed[1].dropped = Len(SmallRows) - Len(df.rows)
    ELSE /\ df = AssignMp3Path(SmallSubset(all_metadata), all_filepaths)
         /\ Range(all_filepaths) \cap Range(bad_filepaths) = {}

----------------------------------------------------------------------------
(* Properties of attach_onehot_encoding and Batch_generator (SpecGen) *)

(* the columns attach_onehot_encoding added to the table it was given *)
NewColumns == SubSeq(df.columns, Len(call.df.columns) + 1, Len(df.columns))

(* C5: attach_onehot_encoding(df, column_name) keeps the original columns
   and appends one column per distinct value of the column named
   column_name; every row has exactly one 1 among the new columns, in the
   column of its own value.  Stated for tables in which no genre is missing. *)
C5_OnehotOfNamedColumn ==
  (ret.op = "attach_onehot_encoding" /\ NaN \notin Range(GenreColumn(call.df))) =>
    LET old == call.df
        c == call.column_name
        n == Len(old.rows)
    IN /\ Len(df.rows) = n
       /\ SubSeq(df.columns, 1, Len(old.columns)) = old.columns
       /\ \A i \in 1..n : \A col \in Range(old.columns) : df.rows[i][col] = old.rows[i][col]
       /\ Len(NewColumns) = Cardinality({old.rows[i][c] : i \in 1..n})
       /\ \A i \in 1..n : Cardinality({g \in Range(NewColumns) : df.rows[i][g] = 1}) = 1
       /\ \A i \in 1..n, j \in 1..n :
            (old.rows[i][c] = old.rows[j][c])
              <=> (\A g \in Range(NewColumns) : df.rows[i][g] = df.rows[j][g])

GetItemReturned == ret.op = "__getitem__" /\ ret.outcome = "returned"

(* C1: for 0 <= idx < len(generator), __getitem__(idx) is built from the
   table rows idx*B .. min((idx+1)*B, N)-1 in table order: row i of x holds
   the spectrogram of the i-th of these tracks and row i of y is that
   track's label row, so x and y have the same number of rows. *)
C1_GetItemBatch ==
  GetItemReturned =>
    LET B == gen.batch_size
        N == Len(df.rows)
        lo == call.idx * B
        hi == Min((call.idx + 1) * B, N)
        k == hi - lo
    IN /\ ret.x.shape[1] = k
       /\ Len(ret.x.data) = k
       /\ Len(ret.y) = k
       /\ \A i \in 1..k :
            LET row == df.rows[lo + i]
                m == melspec[row.mp3_path]
            IN /\ \A r \in 1..m.rows, c \in 1..m.cols :
                    ret.x.data[i][r][c] = m.data[r][c]
               /\ Len(ret.y[i]) = Len(LabelColumns(df))
               /\ \A j \in 1..Len(LabelColumns(df)) :
                    ret.y[i][j] = row[LabelColumns(df)[j]]

C1_Witness ==
  /\ GetItemReturned
  /\ call.idx >= 1
  /\ Len(ret.y) >= 1
  /\ Len(ret.y) < gen.batch_size

(* C2: len(generator) is ceil(N / B): 0 when N = 0, N/B when B divides N,
   floor(N/B) + 1 otherwise. *)
C2_LenIsCeil ==
  (ret.op = "__len__") =>
    LET N == Len(gen.mp3_paths)
        B == gen.batch_size
    IN /\ N = Len(df.rows)
       /\ ret.value = (IF N = 0 THEN 0
                       ELSE IF N % B = 0 THEN N \div B
                       ELSE (N \div B) + 1)

C2_Witness ==
  /\ ret.op = "__len__"
  /\ Len(gen.mp3_paths) > gen.batch_size
  /\ Len(gen.mp3_paths) % gen.batch_size # 0

(* first position at which genre g occurs in the table *)
FirstPos(g) == CHOOSE i \in 1..Len(df.rows) :
                 /\ df.rows[i].genre = g
                 /\ \A j \in 1..(i - 1) : df.rows[j].genre # g

(* rank of g in the order in which genres first occur in the table *)
FirstOccurrenceRank(g) == Cardinality({df.rows[j].genre : j \in 1..FirstPos(g)})

(* C6: every label row of every batch is one-hot: exactly one 1, standing
   at the position of the track's genre in the order in which genres first
   occur in the table, and zeros elsewhere. *)
C6_LabelsOneHot ==
  GetItemReturned =>
    \A i \in 1..Len(ret.y) :
      LET row == df.rows[call.idx * gen.batch_size + i]
          width == Cardinality({df.rows[j].genre : j \in 1..Len(df.rows)})
      IN /\ Len(ret.y[i]) = width
         /\ \A j \in 1..width :
              ret.y[i][j] = (IF j = FirstOccurrenceRank(row.genre) THEN 1 ELSE 0)

C6_Witness ==
  /\ GetItemReturned
  /\ Len(LabelColumns(df)) >= 2
  /\ LabelColumns(df) # DummyColumns(GenreColumn(df))
  /\ \E i \in 1..Len(ret.y) : ret.y[i][1] = 0

RECURSIVE ConcatBatchesX(_, _)
ConcatBatchesX(g, n) ==
  IF n = 0 THEN <<>> ELSE ConcatBatchesX(g, n - 1) \o BatchX(g, n - 1)

RECURSIVE ConcatBatchesY(_, _)
ConcatBatchesY(g, n) ==
  IF n = 0 THEN <<>> ELSE ConcatBatchesY(g, n - 1) \o BatchY(g, n - 1)

C9_Partition ==
  pc = "ready" =>
    LET L == BatchLen(gen)
        B == gen.batch_size
    IN /\ gen.mp3_paths = [i \in 1..Len(df.rows) |-> df.rows[i].mp3_path]
       /\ Len(gen.labels) = Len(gen.mp3_paths)
       /\ ConcatBatchesX(gen, L) = gen.mp3_paths
       /\ ConcatBatchesY(gen, L) = gen.labels
       /\ \A idx \in 0..(L - 1) :
            /\ Len(BatchX(gen, idx)) >= 1
            /\ Len(BatchX(gen, idx)) <= B
            /\ Len(BatchY(gen, idx)) = Len(BatchX(gen, idx))
            /\ idx < L - 1 => Len(BatchX(gen, idx)) = B
       /\ (GetItemReturned /\ call.idx < L) =>
            /\ ret.y = BatchY(gen, call.idx)
            /\ ret.x.shape[1] = Len(BatchX(gen, call.idx))

C9_FieldsKept == pc = "ready" => gen' = gen /\ df' = df /\ melspec' = melspec /\ pc' = pc

(* C9: the batches 0 .. len-1 partition the table in table order: every
   track is in exactly one batch, every batch is non-empty, all but the last
   hold B tracks and the last between 1 and B; __getitem__ and __len__
   change no field of the generator. *)
C9_BatchesPartitionTable == []C9_Partition /\ [][C9_FieldsKept]_vars

C9_Witness ==
  /\ pc = "ready"
  /\ GetItemReturned
  /\ BatchLen(gen) >= 2
  /\ call.idx = BatchLen(gen) - 1
  /\ Len(ret.y) < gen.batch_size

----------------------------------------------------------------------------
(* Properties of _stack_melspecs (SpecStack) *)

(* C3: _stack_melspecs on k >= 1 files returns an array of shape (k, R, C),
   R and C the largest row and column counts of the batch; slice i holds
   spectrogram i unchanged in its top-left block and zeros everywhere else. *)
C3_StackPadsWithZeros ==
  (ret.op = "_stack_melspecs" /\ ret.outcome = "returned") =>
    LET l == call.filepath_list
        k == Len(l)
        a == ret.value
        R == a.shape[2]
        C == a.shape[3]
    IN /\ k >= 1
       /\ a.shape[1] = k
       /\ \E i \in 1..k : melspec[l[i]].rows = R
       /\ \E i \in 1..k : melspec[l[i]].cols = C
       /\ \A i \in 1..k : melspec[l[i]].rows <= R /\ melspec[l[i]].cols <= C
       /\ Len(a.data) = k
       /\ \A i \in 1..k :
            /\ Len(a.data[i]) = R
            /\ \A r \in 1..R :
                 /\ Len(a.data[i][r]) = C
                 /\ \A c \in 1..C :
                      a.data[i][r][c] =
                        (IF r <= melspec[l[i]].rows /\ c <= melspec[l[i]].cols
                         THEN melspec[l[i]].data[r][c]
                         ELSE 0)

C3_Witness ==
  /\ ret.op = "_stack_melspecs"
  /\ ret.outcome = "returned"
  /\ LET l == call.filepath_list
     IN /\ Len(l) >= 2
        /\ \E i \in 1..Len(l) : melspec[l[i]].rows < ret.value.shape[2]
        /\ \E i \in 1..Len(l) : melspec[l[i]].cols < ret.value.shape[3]
        /\ \E i \in 1..Len(l) : melspec[l[i]].cols = ret.value.shape[3]
                                  /\ melspec[l[i]].rows < ret.value.shape[2]

====
